---------------------------- MODULE Spec2Model ----------------------------
(***************************************************************************)
(* VocaBox: the CSV-backed record store (vocabox/data.py), its request     *)
(* handlers (vocabox/routes.py) and the threads that run them.             *)
(*                                                                         *)
(* Text is a sequence of one-character strings.  A record is               *)
(* [id, set, word, definition]; a field is a text or NoneV (Python None).  *)
(***************************************************************************)
EXTENDS Integers, Sequences, FiniteSets, TLC

(***************************************************************************)
(* Characters and small helpers                                            *)
(***************************************************************************)
LF == "\n"
CR == "\r"
COMMA == ","
QUOTE == "\""
SPACE == " "
EOL == "EOL"             \* the end-of-line mark the csv reader feeds itself
NoneV == <<"None">>      \* Python None in a place where a str is expected
Absent == <<"Absent">>   \* a key that a dict does not have

Digits == <<"0", "1", "2", "3", "4", "5", "6", "7", "8", "9">>
IsDigit(c) == \E i \in 1..10 : Digits[i] = c
DigitVal(c) == (CHOOSE i \in 1..10 : Digits[i] = c) - 1
IsSpace(c) == c \in {SPACE, LF, CR}

SetMax(S) == CHOOSE x \in S : \A y \in S : y <= x
Max2(a, b) == IF a >= b THEN a ELSE b
Min2(a, b) == IF a <= b THEN a ELSE b

\* x or '' : None and the empty string are falsy
OrEmpty(x) == IF x = NoneV \/ x = Absent THEN <<>> ELSE x

\* str.strip()
RECURSIVE LStrip(_)
LStrip(s) == IF s # <<>> /\ IsSpace(Head(s)) THEN LStrip(Tail(s)) ELSE s
RECURSIVE RStrip(_)
RStrip(s) ==
    IF s # <<>> /\ IsSpace(s[Len(s)]) THEN RStrip(SubSeq(s, 1, Len(s) - 1)) ELSE s
Strip(s) == RStrip(LStrip(s))

(***************************************************************************)
(* int(str) and str(int)                                                   *)
(***************************************************************************)
RECURSIVE DigitsVal(_, _)
DigitsVal(s, acc) ==
    IF s = <<>> THEN acc ELSE DigitsVal(Tail(s), 10 * acc + DigitVal(Head(s)))

AllDigits(s) == s # <<>> /\ \A i \in 1..Len(s) : IsDigit(s[i])

\* int(x): TypeError on None, ValueError on text that is not
\* [space] [sign] digits [space]
ParseInt(x) ==
    IF x = NoneV THEN [ok |-> FALSE, val |-> 0]
    ELSE LET s == Strip(x)
             signed == s # <<>> /\ Head(s) \in {"-", "+"}
             body == IF signed THEN Tail(s) ELSE s
         IN IF AllDigits(body)
            THEN [ok |-> TRUE,
                  val |-> IF signed /\ Head(s) = "-"
                          THEN 0 - DigitsVal(body, 0) ELSE DigitsVal(body, 0)]
            ELSE [ok |-> FALSE, val |-> 0]

RECURSIVE NatStr(_)
NatStr(n) == IF n < 10 THEN <<Digits[n + 1]>>
             ELSE Append(NatStr(n \div 10), Digits[(n % 10) + 1])
IntStr(n) == IF n < 0 THEN <<"-">> \o NatStr(0 - n) ELSE NatStr(n)


(***************************************************************************)
(* Codec: writing (data.py _csv_ensure_quotes, write_csv)                  *)
(***************************************************************************)
Header == <<"i", "d", ",", "s", "e", "t", ",", "w", "o", "r", "d", ",",
            "d", "e", "f", "i", "n", "i", "t", "i", "o", "n">>
K_id == <<"i", "d">>
K_set == <<"s", "e", "t">>
K_word == <<"w", "o", "r", "d">>
K_definition == <<"d", "e", "f", "i", "n", "i", "t", "i", "o", "n">>
K_definition_sp == K_definition \o <<SPACE>>

\* value.replace('"', '""')
RECURSIVE DoubleQuotes(_)
DoubleQuotes(s) ==
    IF s = <<>> THEN <<>>
    ELSE (IF Head(s) = QUOTE THEN <<QUOTE, QUOTE>> ELSE <<Head(s)>>)
         \o DoubleQuotes(Tail(s))

NeedsQuotes(text) == \E i \in 1..Len(text) : text[i] \in {COMMA, QUOTE, LF}

\* a _csv_ensure_quotes that wraps a field but leaves its quotes single
_csv_ensure_quotes_NoDoubling(value, force_quotes) ==
    IF force_quotes \/ NeedsQuotes(OrEmpty(value))
    THEN <<QUOTE>> \o OrEmpty(value) \o <<QUOTE>>
    ELSE OrEmpty(value)

_csv_ensure_quotes(value, force_quotes) ==
    LET text == DoubleQuotes(OrEmpty(value))
    IN IF force_quotes \/ NeedsQuotes(text)
       THEN <<QUOTE>> \o text \o <<QUOTE>>
       ELSE text

\* ','.join(fields) + '\n' for one record
RowLine(r) ==
    _csv_ensure_quotes(r.id, FALSE) \o <<COMMA>>
    \o _csv_ensure_quotes(r.set, FALSE) \o <<COMMA>>
    \o _csv_ensure_quotes(r.word, FALSE) \o <<COMMA>>
    \o _csv_ensure_quotes(r.definition, TRUE) \o <<LF>>

HeaderLine == Header \o <<LF>>

\* the text write_csv has put in the file after its first n rows
RECURSIVE RowLines(_, _)
RowLines(rows, n) ==
    IF n = 0 THEN <<>> ELSE RowLines(rows, n - 1) \o RowLine(rows[n])
Encode(rows) == HeaderLine \o RowLines(rows, Len(rows))

\* module initialisation: csv.writer ends the header row with \r\n
InitFile == Header \o <<CR, LF>>

(***************************************************************************)
(* Codec: reading (csv.reader's character machine, csv.DictReader)         *)
(***************************************************************************)
P0 == [state |-> "START_RECORD", field |-> <<>>, fields |-> <<>>,
       rows |-> <<>>, err |-> FALSE]

parse_save_field(p) == [p EXCEPT !.fields = Append(@, p.field), !.field = <<>>]
parse_add_char(p, c) == [p EXCEPT !.field = Append(@, c)]
IsNL(c) == c = LF \/ c = CR
AfterNL(c) == IF c = EOL THEN "START_RECORD" ELSE "EAT_CRNL"

StartField(p, c) ==
    IF IsNL(c) \/ c = EOL THEN [parse_save_field(p) EXCEPT !.state = AfterNL(c)]
    ELSE IF c = QUOTE THEN [p EXCEPT !.state = "IN_QUOTED_FIELD"]
    ELSE IF c = COMMA THEN [parse_save_field(p) EXCEPT !.state = "START_FIELD"]
    ELSE [parse_add_char(p, c) EXCEPT !.state = "IN_FIELD"]

parse_process_char(p, c) ==
    IF p.err THEN p
    ELSE CASE p.state = "START_RECORD" ->
                IF c = EOL THEN p
                ELSE IF IsNL(c) THEN [p EXCEPT !.state = "EAT_CRNL"]
                ELSE StartField(p, c)
           [] p.state = "START_FIELD" -> StartField(p, c)
           [] p.state = "IN_FIELD" ->
                IF IsNL(c) \/ c = EOL
                THEN [parse_save_field(p) EXCEPT !.state = AfterNL(c)]
                ELSE IF c = COMMA
                THEN [parse_save_field(p) EXCEPT !.state = "START_FIELD"]
                ELSE parse_add_char(p, c)
           [] p.state = "IN_QUOTED_FIELD" ->
                IF c = EOL THEN p
                ELSE IF c = QUOTE THEN [p EXCEPT !.state = "QUOTE_IN_QUOTED_FIELD"]
                ELSE parse_add_char(p, c)
           [] p.state = "QUOTE_IN_QUOTED_FIELD" ->
                IF c = QUOTE
                THEN [parse_add_char(p, c) EXCEPT !.state = "IN_QUOTED_FIELD"]
                ELSE IF c = COMMA
                THEN [parse_save_field(p) EXCEPT !.state = "START_FIELD"]
                ELSE IF IsNL(c) \/ c = EOL
                THEN [parse_save_field(p) EXCEPT !.state = AfterNL(c)]
                ELSE [parse_add_char(p, c) EXCEPT !.state = "IN_FIELD"]
           [] p.state = "EAT_CRNL" ->
                IF IsNL(c) THEN p
                ELSE IF c = EOL THEN [p EXCEPT !.state = "START_RECORD"]
                ELSE [p EXCEPT !.err = TRUE]

\* Reader_iternext returns the fields when a line's end leaves START_RECORD
EndOfLine(p) ==
    LET q == parse_process_char(p, EOL)
    IN IF ~q.err /\ q.state = "START_RECORD"
       THEN [q EXCEPT !.rows = Append(@, q.fields), !.fields = <<>>]
       ELSE q

\* where the line iterator cuts: a file opened with newline='' cuts at
\* \n, \r and \r\n (universal); io.StringIO cuts at \n only
LineEndsAt(text, i, universal) ==
    \/ i = Len(text)
    \/ text[i] = LF
    \/ universal /\ text[i] = CR /\ text[i + 1] # LF

RECURSIVE Reader(_, _, _, _)
Reader(text, i, p, universal) ==
    IF p.err THEN p
    ELSE IF i > Len(text)
    THEN IF p.state = "IN_QUOTED_FIELD"
         THEN LET q == parse_save_field(p)
              IN [q EXCEPT !.rows = Append(@, q.fields), !.fields = <<>>]
         ELSE p
    ELSE LET q == parse_process_char(p, text[i])
         IN Reader(text, i + 1,
                   IF LineEndsAt(text, i, universal) THEN EndOfLine(q) ELSE q,
                   universal)

\* csv.DictReader: the first row names the columns, empty rows are skipped
KeyIdx(fieldnames, key) == {i \in 1..Len(fieldnames) : fieldnames[i] = key}
DictGet(fieldnames, row, key, default) ==
    IF KeyIdx(fieldnames, key) = {} THEN default
    ELSE LET i == SetMax(KeyIdx(fieldnames, key))
         IN IF i <= Len(row) THEN row[i] ELSE NoneV

DictReader(text, universal) ==
    LET p == Reader(text, 1, P0, universal)
    IN [err |-> p.err,
        fieldnames |-> IF p.rows = <<>> THEN <<>> ELSE p.rows[1],
        rows |-> IF p.rows = <<>> THEN <<>>
                 ELSE SelectSeq(Tail(p.rows), LAMBDA r : r # <<>>)]

(***************************************************************************)
(* The store's pure parts: read_csv's rows, next_numeric_id, and the list   *)
(* changes of the handlers                                                 *)
(***************************************************************************)
Vocab(id, set, word, definition) ==
    [id |-> id, set |-> set, word |-> word, definition |-> definition]

Truthy(x) == x # NoneV /\ x # Absent /\ x # <<>>

\* data.py 39-44: one Vocab from one DictReader row
ReadRow(fn, r) ==
    Vocab(DictGet(fn, r, K_id, Absent),
          DictGet(fn, r, K_set, <<>>),
          DictGet(fn, r, K_word, <<>>),
          LET a == DictGet(fn, r, K_definition, <<>>)
              b == DictGet(fn, r, K_definition_sp, NoneV)
          IN IF Truthy(a) THEN a ELSE IF Truthy(b) THEN b ELSE <<>>)

RECURSIVE ReadRowsOf(_, _, _)
ReadRowsOf(fn, rs, n) ==
    IF n = 0 THEN <<>> ELSE Append(ReadRowsOf(fn, rs, n - 1), ReadRow(fn, rs[n]))

\* what read_csv returns for a file holding text
ReadRows(text) ==
    LET d == DictReader(text, TRUE) IN ReadRowsOf(d.fieldnames, d.rows, Len(d.rows))

\* read_csv raises: r['id'] on a file whose first line names no id column
ReadFails(text) ==
    LET d == DictReader(text, TRUE)
    IN d.err \/ (d.rows # <<>> /\ KeyIdx(d.fieldnames, K_id) = {})

\* data.py 70-75: the loop of next_numeric_id over the first n rows
RECURSIVE MaxIdLoop(_, _)
MaxIdLoop(rows, n) ==
    IF n = 0 THEN 0
    ELSE LET m == MaxIdLoop(rows, n - 1)
             v == ParseInt(rows[n].id)
         IN IF v.ok THEN Max2(m, v.val) ELSE m

\* a next_numeric_id that forgets the + 1
next_numeric_id_NoIncrement(rows) == IntStr(MaxIdLoop(rows, Len(rows)))

\* a next_numeric_id that numbers by position: one more than the row count
next_numeric_id_CountsRows(rows) == NatStr(Len(rows) + 1)

next_numeric_id(rows) ==
    LET max_id == MaxIdLoop(rows, Len(rows))
    IN IntStr(IF max_id >= 0 THEN max_id + 1 ELSE 1)

Ids(rows) == {rows[i].id : i \in 1..Len(rows)}
UniqueIds(rows) ==
    \A i, j \in 1..Len(rows) : rows[i].id = rows[j].id => i = j

\* routes.py 35-37: the id an upsert resolves
UpsertVid(rows, payload) ==
    LET vid == Strip(OrEmpty(payload.id))
    IN IF vid = <<>> THEN next_numeric_id(rows) ELSE vid

\* routes.py 38-43
UpsertNewRow(rows, payload) ==
    Vocab(UpsertVid(rows, payload),
          Strip(OrEmpty(payload.set)),
          Strip(OrEmpty(payload.word)),
          Strip(OrEmpty(payload.definition)))

\* routes.py 44-51: replace the first record with the id, or append
FirstMatch(rows, vid) ==
    IF \E i \in 1..Len(rows) : rows[i].id = vid
    THEN CHOOSE i \in 1..Len(rows) :
            rows[i].id = vid /\ \A j \in 1..(i - 1) : rows[j].id # vid
    ELSE 0

UpsertRows(rows, payload) ==
    LET new_row == UpsertNewRow(rows, payload)
        i == FirstMatch(rows, new_row.id)
    IN IF i = 0 THEN Append(rows, new_row) ELSE [rows EXCEPT ![i] = new_row]

\* routes.py 59
\* a delete that removes nothing
DeleteRows_KeepsAll(rows, vid) == rows

DeleteRows(rows, vid) == SelectSeq(rows, LAMBDA r : r.id # vid)

\* an import that allocates without looking at the rows of its batch
RECURSIVE ImportLoop_NoBatch(_, _, _)
ImportLoop_NoBatch(fn, rs, n) ==
    IF n = 0 THEN <<>>
    ELSE LET rows == ImportLoop_NoBatch(fn, rs, n - 1)
             rid == Strip(OrEmpty(DictGet(fn, rs[n], K_id, NoneV)))
         IN Append(rows,
                   Vocab(IF rid = <<>> THEN next_numeric_id(<<>>) ELSE rid,
                         DictGet(fn, rs[n], K_set, <<>>),
                         DictGet(fn, rs[n], K_word, <<>>),
                         OrEmpty(DictGet(fn, rs[n], K_definition, <<>>))))

\* routes.py 111-121: the rows an import builds from the parsed text
RECURSIVE ImportLoop(_, _, _)
ImportLoop(fn, rs, n) ==
    IF n = 0 THEN <<>>
    ELSE LET rows == ImportLoop(fn, rs, n - 1)
             rid == Strip(OrEmpty(DictGet(fn, rs[n], K_id, NoneV)))
         IN Append(rows,
                   Vocab(IF rid = <<>> THEN next_numeric_id(rows) ELSE rid,
                         DictGet(fn, rs[n], K_set, <<>>),
                         DictGet(fn, rs[n], K_word, <<>>),
                         OrEmpty(DictGet(fn, rs[n], K_definition, <<>>))))

ImportRows(text) ==
    LET d == DictReader(text, FALSE) IN ImportLoop(d.fieldnames, d.rows, Len(d.rows))
ImportFails(text) == DictReader(text, FALSE).err

\* a JSON value of a payload that is no string and is truthy (5, [1], true)
NonStr == <<"NonStr">>

\* routes.py 33-42: `payload.get` on a value that is no object, or `.strip()`
\* on a field that is no string, raises AttributeError
Body(r) == IF "body" \in DOMAIN r THEN r.body ELSE "object"
UpsertRaises(r) ==
    \/ Body(r) = "truthy"
    \/ NonStr \in {r.id, r.set, r.word, r.definition}

\* routes.py 93-101: the text the export generator yields
ExportRow(r) ==
    _csv_ensure_quotes(r.id, FALSE) \o <<COMMA>>
    \o _csv_ensure_quotes(r.set, FALSE) \o <<COMMA>>
    \o _csv_ensure_quotes(r.word, FALSE) \o <<COMMA>>
    \o _csv_ensure_quotes(r.definition, TRUE) \o <<LF>>
RECURSIVE ExportGen(_)
ExportGen(rows) ==
    IF rows = <<>> THEN Header \o <<LF>>
    ELSE ExportGen(SubSeq(rows, 1, Len(rows) - 1)) \o ExportRow(rows[Len(rows)])

\* sentences.py 149-202: the sentences returned for n items when the external
\* model gave ext usable candidates (ext < 0: the call or the parsing raised);
\* _sanitize_sentences returns one sentence per item or none at all
generate_sentences_via_ollama(n, ext) ==
    IF n = 0 \/ ext <= 0 THEN 0 ELSE n

\* a handler that answers 200 whatever it was given
SentencesStatus_Always200(n, sentences) == 200

\* routes.py 82-86
SentencesStatus(n, sentences) ==
    IF sentences = 0 \/ sentences # n THEN 502 ELSE 200

\* routes.py 66-68: the query parameters of a test-sampling request and their
\* defaults
T_set == <<"s", "e", "t">>
T_all == <<"a", "l", "l">>
T_All == <<"A", "l", "l">>
T_25 == <<"2", "5">>
ArgGet(a, default) == IF a = Absent THEN default ELSE a

\* a clamp that forgets the lower end
TestCount_NoFloor(c) == Min2(50, c)

\* routes.py 68: max(1, min(50, int(...)))
TestCount(c) == Max2(1, Min2(50, c))

\* a pool that ignores the set name
TestPool_NoFilter(rows, mode, set_name) == rows

\* routes.py 71
TestPool(rows, mode, set_name) ==
    IF mode = T_all \/ set_name = T_All THEN rows
    ELSE SelectSeq(rows, LAMBDA r : OrEmpty(r.set) = set_name)

\* routes.py 72: random.shuffle walks i from the last place down to the
\* second and swaps x[i] with x[j], j drawn from the places up to i; js[i] is
\* the draw made at place i
Choices(n) == {js \in [2..n -> 1..n] : \A i \in 2..n : js[i] <= i}
Swap(x, i, j) == [x EXCEPT ![i] = x[j], ![j] = x[i]]
RECURSIVE ShuffleFrom(_, _, _, _)
ShuffleFrom(x, i, last, js) ==
    IF i < last THEN x ELSE ShuffleFrom(Swap(x, i, js[i]), i - 1, last, js)

\* a shuffle that stops one place early
random_shuffle_StopsEarly(x, js) == ShuffleFrom(x, Len(x), 3, js)

random_shuffle(x, js) == ShuffleFrom(x, Len(x), 2, js)

\* the permutations of n places, and a list put in the order f
Perms(n) == {f \in [1..n -> 1..n] : \A i, j \in 1..n : f[i] = f[j] => i = j}
Shuffled(pool, f) == [i \in 1..Len(pool) |-> pool[f[i]]]

\* routes.py 73: pool[:count]
Slice(pool, count) == SubSeq(pool, 1, Min2(count, Len(pool)))

(***************************************************************************)
(* Requests and the threads that serve them                                *)
(***************************************************************************)
NThreads == 2            \* worker threads of the one server process
MaxReqs == 3             \* requests served in one run
MaxSeqReqs == 3          \* requests served in one sequential run
MaxTestReqs == 3         \* requests served in one run of sampling requests
MaxImpReqs == 3          \* requests served in one run of import requests
MaxEdgeReqs == 3         \* requests served in one run of malformed requests
MaxCodecRows == 2        \* records handed to write_csv in a codec run
MaxPool == 4             \* records in the pool of a shuffle run
MaxReuseReqs == 4        \* requests served in one run that deletes and re-creates

Threads == 1..NThreads

Req(o, id, set, word, definition, text) ==
    [op |-> o, id |-> id, set |-> set, word |-> word,
     definition |-> definition, text |-> text, vid |-> <<>>]
NoReq == Req("none", <<>>, <<>>, <<>>, <<>>, <<>>)
UpsertReqs(I, S, W, D) ==
    {Req("upsert", i, s, w, d, <<>>) : i \in I, s \in S, w \in W, d \in D}
\* the query parameters of GET /api/test, Absent when not given
TestArgs(M, S, C) == {[mode |-> m, set |-> s, count |-> c] : m \in M, s \in S, c \in C}

\* request inputs of the concurrent runs: what matters is which id is addressed
UpsertIn == UpsertReqs({<<>>, <<"x">>}, {<<"a">>}, {<<"w">>}, {<<"d">>})
DeleteIn == {<<"1">>}
ImportIn == {HeaderLine \o <<"2", COMMA, "a", LF>>}
TestOne == TestArgs({Absent}, {Absent}, {<<"1">>})
In == [upsert |-> UpsertIn, delete |-> DeleteIn, import |-> ImportIn,
       test |-> TestOne, bodies |-> {"truthy"}, items |-> {1}, ext |-> {1},
       max |-> MaxReqs, seq |-> FALSE]

\* request inputs of the sequential runs: fields with blanks, quotes, commas
\* and line ends; missing fields; import bodies with blank ids and bad lines
SeqUpsertIn ==
    UpsertReqs({<<>>, <<"1">>, <<"x">>},
               {<<"a">>, <<"a", CR, "1">>},
               {Absent, <<SPACE, "w">>},
               {<<"d", CR, "q">>, <<QUOTE, COMMA, LF>>})
SeqDeleteIn == {<<"1">>, <<"x">>, <<"z">>}
SeqImportIn == {HeaderLine \o <<"1", COMMA, "a", LF, COMMA, "b", LF>>,
                HeaderLine \o <<"2", COMMA, "a", CR, "b", LF>>}
SeqIn == [upsert |-> SeqUpsertIn, delete |-> SeqDeleteIn, import |-> SeqImportIn,
          test |-> TestOne, bodies |-> {"truthy"}, items |-> {1}, ext |-> {1},
          max |-> MaxSeqReqs, seq |-> TRUE]

\* request inputs of the sampling runs: records of two sets; every default
\* and counts below, inside and above the range [1, 50]
TestUpsertIn == UpsertReqs({<<>>}, {<<"a">>, <<"b">>}, {<<"w">>}, {<<"d">>})
TestTestIn ==
    TestArgs({Absent, T_all}, {Absent, <<"a">>},
             {Absent, <<"0">>, <<"2">>, <<"5", "1">>})
TestIn == [upsert |-> TestUpsertIn, delete |-> DeleteIn, import |-> ImportIn,
           test |-> TestTestIn, bodies |-> {"truthy"}, items |-> {1}, ext |-> {1},
           max |-> MaxTestReqs, seq |-> TRUE]

\* request inputs of the import runs: bodies that repeat an id, put a blank
\* id before an explicit one, hold negative and non-numeric ids, a quoted
\* carriage return, a short row
ImpUpsertIn == UpsertReqs({<<>>, <<"7">>}, {<<"a">>}, {<<"w">>}, {<<"d">>})
ImpImportIn ==
    {HeaderLine \o <<"1", COMMA, "a", LF, "1", COMMA, "b", LF>>,
     HeaderLine \o <<COMMA, "a", LF, "1", COMMA, "b", LF>>,
     HeaderLine \o <<"-", "5", COMMA, "a", LF, COMMA, "b", LF, SPACE, COMMA, "c", LF>>,
     HeaderLine \o <<"x", COMMA, "a", LF, "4", LF, COMMA, "b", COMMA, "w", COMMA, "d", LF>>,
     HeaderLine \o <<"3", COMMA, QUOTE, "a", CR, "b", QUOTE, LF>>}
ImpIn == [upsert |-> ImpUpsertIn, delete |-> DeleteIn, import |-> ImpImportIn,
          test |-> TestOne, bodies |-> {"truthy"}, items |-> {1}, ext |-> {1},
          max |-> MaxImpReqs, seq |-> TRUE]

\* request inputs of the runs that delete and create again: records under an
\* explicit numeric id and under allocated ids, deletes of those ids
ReuseUpsertIn ==
    UpsertReqs({<<>>, <<"3">>}, {<<"a">>, <<"a", CR, "1">>}, {<<"w">>}, {<<"d">>})
ReuseDeleteIn == {<<"1">>, <<"3">>, <<"4">>}
ReuseIn == [upsert |-> ReuseUpsertIn, delete |-> ReuseDeleteIn, import |-> ImportIn,
            test |-> TestOne, bodies |-> {"truthy"}, items |-> {1}, ext |-> {1},
            max |-> MaxReuseReqs, seq |-> TRUE]

\* request inputs of the runs with malformed requests: bodies that are no
\* JSON object, fields that are no string; import texts that are empty, lack
\* the header, leave a quote open, end a quoted field with a carriage return,
\* or hold quoted commas and doubled quotes
EdgeUpsertIn == UpsertReqs({<<>>, NonStr}, {<<"a">>, NonStr}, {<<"w">>}, {<<"d">>})
EdgeImportIn ==
    {<<>>,
     <<"1", COMMA, "a", LF>>,
     HeaderLine \o <<"1", COMMA, QUOTE, "a", LF>>,
     HeaderLine \o <<"3", COMMA, QUOTE, "a", CR, QUOTE, LF>>,
     HeaderLine \o <<"4", COMMA, QUOTE, "a", COMMA, "b", QUOTE, COMMA,
                     QUOTE, "w", QUOTE, QUOTE, "q", QUOTE, COMMA, "d", LF>>}
EdgeIn == [upsert |-> EdgeUpsertIn, delete |-> DeleteIn, import |-> EdgeImportIn,
           test |-> TestOne, bodies |-> {"not_json", "falsy", "truthy"},
           items |-> {0, 2}, ext |-> {-1, 0, 1, 2},
           max |-> MaxEdgeReqs, seq |-> TRUE]

\* codec runs: the records handed to write_csv, then one List or export
CodecVocabs ==
    {Vocab(i, s, w, d) : i \in {<<"1">>, <<QUOTE, "i">>},
                         s \in {<<"a", CR, "b">>, <<COMMA>>},
                         w \in {<<>>, <<LF>>},
                         d \in {<<>>, <<QUOTE, COMMA>>, <<"d", LF, CR>>}}
CodecInputs == UNION {[1..n -> CodecVocabs] : n \in 0..MaxCodecRows}
CodecIn == [upsert |-> {}, delete |-> {}, import |-> {}, test |-> {},
            bodies |-> {}, items |-> {}, ext |-> {}, max |-> 2, seq |-> TRUE]

\* shuffle runs: a sampling request that has read a pool of distinct records
PoolOf(n) == [i \in 1..n |-> Vocab(IntStr(i), <<"a">>, <<"w">>, <<"d">>)]
ShuffleReqs ==
    {[op |-> "test", args |-> a, mode |-> T_all, set_name |-> T_All,
      count |-> TestCount(ParseInt(a.count).val)] :
        a \in TestArgs({T_all}, {Absent}, {<<"1">>, <<"2">>, <<"5", "0">>})}
ShuffleIn == [upsert |-> {}, delete |-> {}, import |-> {}, test |-> {},
              bodies |-> {}, items |-> {}, ext |-> {}, max |-> 1, seq |-> TRUE]

VARIABLES
    file,      \* the text of data/vocab.csv
    lock,      \* LOCK: 0 when free, else the thread that holds it
    pc,        \* pc[t]: where thread t is in its handler
    req,       \* req[t]: the request thread t serves
    snap,      \* snap[t]: what read_csv returned to the handler
    rows,      \* rows[t]: the list the handler passes to write_csv
    wi,        \* wi[t]: rows write_csv has written so far
    nreq,      \* requests started
    acked,     \* ids an upsert has returned, not deleted or imported over since
    must,      \* must[t]: for a List, the acked ids when it started
    lastw,     \* the rows of the last completed write_csv
    gone,      \* ids a delete or import has removed, not written again since
               \* by a request for that id
    hist,      \* the completed requests of a sequential run
    nid_rows,  \* next_numeric_id alone: its argument
    nid_out    \* next_numeric_id alone: its result, NoneV before the call

vars == <<file, lock, pc, req, snap, rows, wi, nreq, acked, must, lastw, gone,
          hist, nid_rows, nid_out>>

Init ==
    /\ file = InitFile
    /\ lock = 0
    /\ pc = [t \in Threads |-> "idle"]
    /\ req = [t \in Threads |-> NoReq]
    /\ snap = [t \in Threads |-> <<>>]
    /\ rows = [t \in Threads |-> <<>>]
    /\ wi = [t \in Threads |-> 0]
    /\ nreq = 0
    /\ acked = {}
    /\ must = [t \in Threads |-> {}]
    /\ lastw = <<>>
    /\ gone = {}
    /\ hist = <<>>
    /\ nid_rows = <<>>
    /\ nid_out = NoneV

\* a handler that returns: the thread is free for the next request
\* the record of the request that thread t answers in this step
HistEntry(t) ==
    [op |-> IF req[t].op = "none" THEN "import_error"
            ELSE IF pc[t] = "read_file" THEN "read_error" ELSE req[t].op,
     req |-> req[t],
     before |-> snap[t],
     rows |-> rows[t],
     status |-> IF req[t].op = "none" \/ pc[t] = "read_file" THEN 500 ELSE 200]

\* sequential runs record every answered request
Log(t, in) == hist' = IF in.seq THEN Append(hist, HistEntry(t)) ELSE hist
\* the record of a request answered with status st, other than by returning
LogAs(t, in, o, r, st) ==
    hist' = IF in.seq
            THEN Append(hist, [op |-> o, req |-> r, before |-> snap[t],
                               rows |-> <<>>, status |-> st])
            ELSE hist

Finish(t) ==
    /\ pc' = [pc EXCEPT ![t] = "idle"]
    /\ req' = [req EXCEPT ![t] = NoReq]
    /\ snap' = [snap EXCEPT ![t] = <<>>]
    /\ rows' = [rows EXCEPT ![t] = <<>>]
    /\ wi' = [wi EXCEPT ![t] = 0]

\* a request arrives and its handler runs up to its first call of the store
Call(t, r, to) ==
    /\ nreq' = nreq + 1
    /\ req' = [req EXCEPT ![t] = r]
    /\ pc' = [pc EXCEPT ![t] = to]
Idle(t, in) == pc[t] = "idle" /\ nreq < in.max

ApiVocabsCall(t, in) ==
    /\ Idle(t, in)
    /\ Call(t, Req("list", <<>>, <<>>, <<>>, <<>>, <<>>), "read_lock")
    /\ must' = [must EXCEPT ![t] = acked]
    /\ UNCHANGED <<file, lock, snap, rows, wi, acked, lastw, gone, hist, nid_rows, nid_out>>

ApiUpsertCall(t, in) ==
    /\ Idle(t, in)
    /\ \E r \in in.upsert : Call(t, r, "read_lock")
    /\ UNCHANGED <<file, lock, snap, rows, wi, acked, must, lastw, gone, hist, nid_rows, nid_out>>

ApiDeleteCall(t, in) ==
    /\ Idle(t, in)
    /\ \E vid \in in.delete :
          Call(t, Req("delete", vid, <<>>, <<>>, <<>>, <<>>), "read_lock")
    /\ UNCHANGED <<file, lock, snap, rows, wi, acked, must, lastw, gone, hist, nid_rows, nid_out>>

\* an import that keeps the records of the last write and adds its own
ApiImportCall_Merges(t, in) ==
    /\ Idle(t, in)
    /\ \E text \in in.import :
          LET d == DictReader(text, FALSE)
          IN IF d.err
             THEN /\ Call(t, NoReq, "idle")
                  /\ Log(t, in)
                  /\ UNCHANGED rows
             ELSE /\ Call(t, Req("import", <<>>, <<>>, <<>>, <<>>, text), "write_lock")
                  /\ rows' = [rows EXCEPT
                                ![t] = lastw \o ImportLoop(d.fieldnames, d.rows,
                                                           Len(d.rows))]
                  /\ UNCHANGED hist
    /\ UNCHANGED <<file, lock, snap, wi, acked, must, lastw, gone, nid_rows, nid_out>>

\* routes.py 108-121: import parses the body and builds its rows; a
\* csv.Error ends the request before write_csv
ApiImportCall(t, in) ==
    /\ Idle(t, in)
    /\ \E text \in in.import :
          LET d == DictReader(text, FALSE)
          IN IF d.err
             THEN /\ Call(t, NoReq, "idle")
                  /\ Log(t, in)
                  /\ UNCHANGED rows
             ELSE /\ Call(t, Req("import", <<>>, <<>>, <<>>, <<>>, text), "write_lock")
                  /\ rows' = [rows EXCEPT
                                ![t] = ImportLoop(d.fieldnames, d.rows, Len(d.rows))]
                  /\ UNCHANGED hist
    /\ UNCHANGED <<file, lock, snap, wi, acked, must, lastw, gone, nid_rows, nid_out>>

\* routes.py 33-34: an upsert whose body is no JSON object. get_json answers
\* a body that is no JSON with 400; a falsy JSON value (null, 0, [], "")
\* becomes the empty payload; a truthy one is kept as the payload
ApiUpsertRawCall(t, in) ==
    /\ Idle(t, in)
    /\ \E k \in in.bodies :
          LET r == [op |-> "upsert", id |-> Absent, set |-> Absent, word |-> Absent,
                    definition |-> Absent, text |-> <<>>, vid |-> <<>>, body |-> k]
          IN IF k = "not_json"
             THEN /\ nreq' = nreq + 1
                  /\ LogAs(t, in, "upsert_error", r, 400)
                  /\ UNCHANGED <<pc, req>>
             ELSE /\ Call(t, r, "read_lock")
                  /\ UNCHANGED hist
    /\ UNCHANGED <<file, lock, snap, rows, wi, acked, must, lastw, gone, nid_rows, nid_out>>

\* routes.py 89-91
ApiExportCall(t, in) ==
    /\ Idle(t, in)
    /\ Call(t, Req("export", <<>>, <<>>, <<>>, <<>>, <<>>), "read_lock")
    /\ UNCHANGED <<file, lock, snap, rows, wi, acked, must, lastw, gone, hist, nid_rows, nid_out>>

\* routes.py 77-86: the handler never calls the store
ApiSentences(t, in) ==
    /\ Idle(t, in)
    /\ \E n \in in.items, ext \in in.ext :
          LET sentences == generate_sentences_via_ollama(n, ext)
          IN LogAs(t, in, "sentences",
                   [op |-> "sentences", items |-> n, ext |-> ext,
                    sentences |-> sentences],
                   SentencesStatus(n, sentences))
    /\ nreq' = nreq + 1
    /\ UNCHANGED <<file, lock, pc, req, snap, rows, wi, acked, must, lastw, gone, nid_rows, nid_out>>

\* routes.py 66-68: the parameters are read and the count clamped before the
\* store is touched
ApiTestCall(t, in) ==
    /\ Idle(t, in)
    /\ \E a \in in.test :
          LET c == ParseInt(ArgGet(a.count, T_25))
          IN /\ c.ok
             /\ Call(t, [op |-> "test", args |-> a,
                         mode |-> ArgGet(a.mode, T_set),
                         set_name |-> ArgGet(a.set, T_All),
                         count |-> TestCount(c.val)], "read_lock")
    /\ UNCHANGED <<file, lock, snap, rows, wi, acked, must, lastw, gone, hist, nid_rows, nid_out>>

\* data.py 34: read_csv enters `with LOCK`
\* a read_csv / write_csv that does not wait for LOCK
LockFree_NoWait == TRUE

LockFree == lock = 0
ReadLock(t) ==
    /\ pc[t] = "read_lock"
    /\ LockFree
    /\ lock' = t
    /\ pc' = [pc EXCEPT ![t] = "read_file"]
    /\ UNCHANGED <<file, req, snap, rows, wi, nreq, acked, must, lastw, gone, hist, nid_rows, nid_out>>

\* data.py 35-45: read the file, leave the lock, return the rows
ReadFile(t, in) ==
    /\ pc[t] = "read_file"
    /\ lock' = 0
    /\ LET d == DictReader(file, TRUE)
       IN IF d.err \/ (d.rows # <<>> /\ KeyIdx(d.fieldnames, K_id) = {})
          THEN /\ Finish(t)
               /\ must' = [must EXCEPT ![t] = {}]
               /\ Log(t, in)
          ELSE /\ snap' = [snap EXCEPT
                             ![t] = ReadRowsOf(d.fieldnames, d.rows, Len(d.rows))]
               /\ pc' = [pc EXCEPT ![t] = "body"]
               /\ UNCHANGED <<req, rows, wi, must, hist>>
    /\ UNCHANGED <<file, nreq, acked, lastw, gone, nid_rows, nid_out>>

\* routes.py 27-28
ApiVocabsReturn(t, in) ==
    /\ pc[t] = "body"
    /\ req[t].op = "list"
    /\ Finish(t)
    /\ must' = [must EXCEPT ![t] = {}]
    /\ Log(t, in)
    /\ UNCHANGED <<file, lock, nreq, acked, lastw, gone, nid_rows, nid_out>>

\* a sampling handler that saves the shuffled rows
ApiTestBody_Writes(t) ==
    /\ pc[t] = "body"
    /\ req[t].op = "test"
    /\ LET pool == TestPool(snap[t], req[t].mode, req[t].set_name)
       IN \E js \in Choices(Len(pool)) :
             /\ rows' = [rows EXCEPT
                           ![t] = Slice(random_shuffle(pool, js), req[t].count)]
             /\ file' = Encode(random_shuffle(pool, js))
    /\ pc' = [pc EXCEPT ![t] = "respond"]
    /\ UNCHANGED <<lock, req, snap, wi, nreq, acked, must, lastw, gone, hist, nid_rows, nid_out>>

\* routes.py 71-73: the pool, shuffled, cut to count
ApiTestBody(t) ==
    /\ pc[t] = "body"
    /\ req[t].op = "test"
    /\ LET pool == TestPool(snap[t], req[t].mode, req[t].set_name)
       IN \E js \in Choices(Len(pool)) :
             rows' = [rows EXCEPT
                        ![t] = Slice(random_shuffle(pool, js), req[t].count)]
    /\ pc' = [pc EXCEPT ![t] = "respond"]
    /\ UNCHANGED <<file, lock, req, snap, wi, nreq, acked, must, lastw, gone, hist, nid_rows, nid_out>>

\* routes.py 74
ApiTestReturn(t, in) ==
    /\ pc[t] = "respond"
    /\ Finish(t)
    /\ Log(t, in)
    /\ UNCHANGED <<file, lock, nreq, acked, must, lastw, gone, nid_rows, nid_out>>

\* routes.py 93-103: the generator yields the text from the rows read
ApiExportBody(t) ==
    /\ pc[t] = "body"
    /\ req[t].op = "export"
    /\ req' = [req EXCEPT ![t].text = ExportGen(snap[t])]
    /\ pc' = [pc EXCEPT ![t] = "stream"]
    /\ UNCHANGED <<file, lock, snap, rows, wi, nreq, acked, must, lastw, gone, hist, nid_rows, nid_out>>

ApiExportReturn(t, in) ==
    /\ pc[t] = "stream"
    /\ Finish(t)
    /\ Log(t, in)
    /\ UNCHANGED <<file, lock, nreq, acked, must, lastw, gone, nid_rows, nid_out>>

\* routes.py 35-42: the AttributeError ends the request before write_csv
ApiUpsertRaise(t, in) ==
    /\ pc[t] = "body"
    /\ req[t].op = "upsert"
    /\ UpsertRaises(req[t])
    /\ Finish(t)
    /\ LogAs(t, in, "upsert_error", req[t], 500)
    /\ UNCHANGED <<file, lock, nreq, acked, must, lastw, gone, nid_rows, nid_out>>

\* routes.py 35-51
ApiUpsertBody(t) ==
    /\ pc[t] = "body"
    /\ req[t].op = "upsert"
    /\ ~UpsertRaises(req[t])
    /\ rows' = [rows EXCEPT ![t] = UpsertRows(snap[t], req[t])]
    /\ req' = [req EXCEPT ![t].vid = UpsertVid(snap[t], req[t])]
    /\ pc' = [pc EXCEPT ![t] = "write_lock"]
    /\ UNCHANGED <<file, lock, snap, wi, nreq, acked, must, lastw, gone, hist, nid_rows, nid_out>>

\* routes.py 59
ApiDeleteBody(t) ==
    /\ pc[t] = "body"
    /\ req[t].op = "delete"
    /\ rows' = [rows EXCEPT ![t] = DeleteRows(snap[t], req[t].id)]
    /\ req' = [req EXCEPT ![t].vid = req[t].id]
    /\ pc' = [pc EXCEPT ![t] = "write_lock"]
    /\ UNCHANGED <<file, lock, snap, wi, nreq, acked, must, lastw, gone, hist, nid_rows, nid_out>>

\* data.py 56: write_csv enters `with LOCK`
WriteLock(t) ==
    /\ pc[t] = "write_lock"
    /\ LockFree
    /\ lock' = t
    /\ pc' = [pc EXCEPT ![t] = "write_open"]
    /\ UNCHANGED <<file, req, snap, rows, wi, nreq, acked, must, lastw, gone, hist, nid_rows, nid_out>>

\* data.py 57: open(CSV_PATH, 'w') truncates the file
WriteOpen(t) ==
    /\ pc[t] = "write_open"
    /\ file' = <<>>
    /\ pc' = [pc EXCEPT ![t] = "write_header"]
    /\ UNCHANGED <<lock, req, snap, rows, wi, nreq, acked, must, lastw, gone, hist, nid_rows, nid_out>>

\* data.py 58
WriteHeader(t) ==
    /\ pc[t] = "write_header"
    /\ file' = file \o HeaderLine
    /\ pc' = [pc EXCEPT ![t] = "write_rows"]
    /\ UNCHANGED <<lock, req, snap, rows, wi, nreq, acked, must, lastw, gone, hist, nid_rows, nid_out>>

\* data.py 59-66: one turn of the loop
WriteRow(t) ==
    /\ pc[t] = "write_rows"
    /\ wi[t] < Len(rows[t])
    /\ file' = file \o RowLine(rows[t][wi[t] + 1])
    /\ wi' = [wi EXCEPT ![t] = wi[t] + 1]
    /\ UNCHANGED <<lock, pc, req, snap, rows, nreq, acked, must, lastw, gone, hist, nid_rows, nid_out>>

\* what a completed request does to the ids that upserts have returned
AckedAfter(r, ids) ==
    CASE r.op = "upsert" -> ids \cup {r.vid}
      [] r.op = "delete" -> ids \ {r.vid}
      [] OTHER -> {}

\* what a completed request does to the ids that were removed: a delete
\* removes its id, an import every stored id its text does not carry, and a
\* request that writes a record for an id stores that id again
GoneAfter(r, written, before, ids) ==
    CASE r.op = "upsert" -> ids \ {r.vid}
      [] r.op = "delete" -> ids \cup {r.vid}
      [] OTHER -> (ids \cup Ids(before)) \ Ids(written)

\* data.py 56-66 ends: the file is closed, the lock left; the handler
\* returns its response (routes.py 53, 61, 123)
WriteClose(t, in) ==
    /\ pc[t] = "write_rows"
    /\ wi[t] = Len(rows[t])
    /\ lock' = 0
    /\ lastw' = rows[t]
    /\ acked' = AckedAfter(req[t], acked)
    /\ gone' = GoneAfter(req[t], rows[t], lastw, gone)
    /\ must' = [u \in Threads |->
                  IF req[t].op = "upsert" THEN must[u]
                  ELSE must[u] \cap AckedAfter(req[t], acked)]
    /\ Finish(t)
    /\ Log(t, in)
    /\ UNCHANGED <<file, nreq, nid_rows, nid_out>>

Step(t, in) ==
    \/ ApiVocabsCall(t, in)
    \/ ApiUpsertCall(t, in)
    \/ ApiDeleteCall(t, in)
    \/ ApiImportCall(t, in)
    \/ ApiTestCall(t, in)
    \/ ApiUpsertRawCall(t, in)
    \/ ApiExportCall(t, in)
    \/ ApiSentences(t, in)
    \/ ReadLock(t)
    \/ ReadFile(t, in)
    \/ ApiVocabsReturn(t, in)
    \/ ApiUpsertBody(t)
    \/ ApiDeleteBody(t)
    \/ ApiTestBody(t)
    \/ ApiTestReturn(t, in)
    \/ ApiExportBody(t)
    \/ ApiExportReturn(t, in)
    \/ ApiUpsertRaise(t, in)
    \/ WriteLock(t)
    \/ WriteOpen(t)
    \/ WriteHeader(t)
    \/ WriteRow(t)
    \/ WriteClose(t, in)

\* the server: every thread serves requests, in any interleaving
Next == \E t \in Threads : Step(t, In)

Spec == Init /\ [][Next]_vars

\* one client: each request is answered before the next is sent
NextSeq == Step(1, SeqIn)

SpecSeq == Init /\ [][NextSeq]_vars

\* one client that samples
NextTest == Step(1, TestIn)

SpecTest == Init /\ [][NextTest]_vars

\* one client that imports
NextImp == Step(1, ImpIn)

SpecImp == Init /\ [][NextImp]_vars

\* one client that deletes records and creates new ones
NextReuse == Step(1, ReuseIn)

SpecReuse == Init /\ [][NextReuse]_vars

\* one client that sends malformed requests
NextEdge == Step(1, EdgeIn)

SpecEdge == Init /\ [][NextEdge]_vars

\* the server under fair scheduling: a thread that can take a step of its
\* handler takes it, and a thread that waits for LOCK gets it if it is free
\* again and again
\* thread t is inside the with block of read_csv or write_csv
InFile(t) == pc[t] \in {"read_file", "write_open", "write_header", "write_rows"}

\* an open, read or write that raises OSError without leaving the with block
IoError_KeepsLock(t) ==
    /\ InFile(t)
    /\ Finish(t)
    /\ must' = [must EXCEPT ![t] = {}]
    /\ UNCHANGED <<file, lock, nreq, acked, lastw, gone, hist, nid_rows, nid_out>>

\* data.py 34-35, 56-57: open, read or write raises OSError inside
\* "with LOCK"; the with statement releases the lock and the request fails
IoError(t) ==
    /\ InFile(t)
    /\ lock' = 0
    /\ Finish(t)
    /\ must' = [must EXCEPT ![t] = {}]
    /\ UNCHANGED <<file, nreq, acked, lastw, gone, hist, nid_rows, nid_out>>

\* the steps a thread takes without waiting for the lock; inside a with block
\* it goes on to the end of the block or leaves it by raising
Run(t) ==
    \/ IoError(t)
    \/ ReadFile(t, In)
    \/ ApiVocabsReturn(t, In)
    \/ ApiUpsertBody(t)
    \/ ApiDeleteBody(t)
    \/ ApiTestBody(t)
    \/ ApiTestReturn(t, In)
    \/ ApiExportBody(t)
    \/ ApiExportReturn(t, In)
    \/ ApiUpsertRaise(t, In)
    \/ WriteOpen(t)
    \/ WriteHeader(t)
    \/ WriteRow(t)
    \/ WriteClose(t, In)

\* every thread keeps running, and a thread that finds the lock free again
\* and again eventually takes it
Fairness ==
    \A t \in Threads :
        WF_vars(Run(t)) /\ SF_vars(ReadLock(t)) /\ SF_vars(WriteLock(t))

NextLive == Next \/ \E t \in Threads : IoError(t)

SpecLive == Init /\ [][NextLive]_vars /\ Fairness

(***************************************************************************)
(* The codec on its own: write_csv of any records, then one read            *)
(***************************************************************************)
InitCodec ==
    /\ file = InitFile
    /\ lock = 0
    /\ pc = [t \in Threads |-> IF t = 1 THEN "write_lock" ELSE "idle"]
    /\ req = [t \in Threads |->
                IF t = 1 THEN Req("import", <<>>, <<>>, <<>>, <<>>, <<>>) ELSE NoReq]
    /\ snap = [t \in Threads |-> <<>>]
    /\ \E rs \in CodecInputs : rows = [t \in Threads |-> IF t = 1 THEN rs ELSE <<>>]
    /\ wi = [t \in Threads |-> 0]
    /\ nreq = 1
    /\ acked = {}
    /\ must = [t \in Threads |-> {}]
    /\ lastw = <<>>
    /\ gone = {}
    /\ hist = <<>>
    /\ nid_rows = <<>>
    /\ nid_out = NoneV

NextCodec ==
    \/ WriteLock(1)
    \/ WriteOpen(1)
    \/ WriteHeader(1)
    \/ WriteRow(1)
    \/ WriteClose(1, CodecIn)
    \/ ApiVocabsCall(1, CodecIn)
    \/ ApiExportCall(1, CodecIn)
    \/ ReadLock(1)
    \/ ReadFile(1, CodecIn)
    \/ ApiVocabsReturn(1, CodecIn)
    \/ ApiExportBody(1)
    \/ ApiExportReturn(1, CodecIn)

SpecCodec == InitCodec /\ [][NextCodec]_vars

(***************************************************************************)
(* The shuffle on its own: a sampling request that has read its pool        *)
(***************************************************************************)
InitShuffle ==
    /\ lock = 0
    /\ pc = [t \in Threads |-> IF t = 1 THEN "body" ELSE "idle"]
    /\ \E r \in ShuffleReqs : req = [t \in Threads |-> IF t = 1 THEN r ELSE NoReq]
    /\ \E n \in 0..MaxPool :
          /\ file = Encode(PoolOf(n))
          /\ lastw = PoolOf(n)
          /\ snap = [t \in Threads |-> IF t = 1 THEN PoolOf(n) ELSE <<>>]
    /\ rows = [t \in Threads |-> <<>>]
    /\ wi = [t \in Threads |-> 0]
    /\ nreq = 1
    /\ acked = {}
    /\ must = [t \in Threads |-> {}]
    /\ gone = {}
    /\ hist = <<>>
    /\ nid_rows = <<>>
    /\ nid_out = NoneV

NextShuffle == ApiTestBody(1) \/ ApiTestReturn(1, ShuffleIn)

SpecShuffle == InitShuffle /\ [][NextShuffle]_vars

(***************************************************************************)
(* next_numeric_id on its own: any rows, then one call                      *)
(***************************************************************************)
MaxNidRows == 3          \* rows handed to next_numeric_id

NidIds == {<<"-", "5">>, <<"-", "1">>, <<"0">>, <<"1">>, <<"9">>, <<"1", "9">>,
           <<SPACE, "3">>, <<"x">>, <<>>}
NidVocabs == {Vocab(i, <<>>, <<>>, <<>>) : i \in NidIds}
NidInputs == UNION {[1..n -> NidVocabs] : n \in 0..MaxNidRows}

InitNid ==
    /\ file = InitFile
    /\ lock = 0
    /\ pc = [t \in Threads |-> "idle"]
    /\ req = [t \in Threads |-> NoReq]
    /\ snap = [t \in Threads |-> <<>>]
    /\ rows = [t \in Threads |-> <<>>]
    /\ wi = [t \in Threads |-> 0]
    /\ nreq = 0
    /\ acked = {}
    /\ must = [t \in Threads |-> {}]
    /\ lastw = <<>>
    /\ gone = {}
    /\ hist = <<>>
    /\ nid_rows \in NidInputs
    /\ nid_out = NoneV

NidCall ==
    /\ nid_out = NoneV
    /\ nid_out' = next_numeric_id(nid_rows)
    /\ UNCHANGED <<file, lock, pc, req, snap, rows, wi, nreq, acked, must, lastw,
                   gone, hist, nid_rows>>

SpecNid == InitNid /\ [][NidCall]_vars

(***************************************************************************)
(* Properties                                                              *)
(***************************************************************************)
StoreRows == ReadRows(file)          \* what a List would return now
AllIdle == \A t \in Threads : pc[t] = "idle"
Waiting(t) == pc[t] \in {"read_lock", "write_lock"}
\* thread t has read the file for a change it has not written yet
BetweenReadAndWrite(t) ==
    pc[t] \in {"body", "write_lock"} /\ req[t].op \in {"upsert", "delete"}

ParsedIds(rs) ==
    {ParseInt(rs[i].id).val : i \in {j \in 1..Len(rs) : ParseInt(rs[j].id).ok}}

\* C5: read_csv and write_csv exclude each other and themselves: at most one
\* thread is inside the file-access section, and it is the holder of the lock.
C5_MutualExclusion ==
    \A t, u \in Threads :
        /\ InFile(t) => lock = t
        /\ (InFile(t) /\ InFile(u)) => t = u

\* C5 witness: one thread is inside write_csv's file section, mid-write, while
\* another thread waits for the lock.
C5_Witness ==
    \E t, u \in Threads :
        /\ pc[t] = "write_rows" /\ wi[t] < Len(rows[t])
        /\ Waiting(u)

\* C9 as claimed: the result is one more than the greatest id that parses as
\* an integer, also when that is zero or negative, and "1" when none parses.
C9_Original ==
    nid_out # NoneV =>
        nid_out = IF ParsedIds(nid_rows) = {} THEN <<"1">>
                  ELSE IntStr(SetMax(ParsedIds(nid_rows)) + 1)

\* C9 amended: the result is one more than the greatest of 0 and the ids that
\* parse as integers; ids that do not parse are ignored, so it is "1" when no
\* id parses to a positive integer.
C9_NextIdFloorZero ==
    nid_out # NoneV =>
        nid_out = IntStr(SetMax(ParsedIds(nid_rows) \cup {0}) + 1)

\* C9 witness: next_numeric_id has answered for rows that hold a negative
\* id, a positive id and an id that is no integer.
C9_Witness ==
    /\ nid_out # NoneV
    /\ \E v \in ParsedIds(nid_rows) : v < 0
    /\ \E v \in ParsedIds(nid_rows) : v > 0
    /\ \E i \in 1..Len(nid_rows) : ~ParseInt(nid_rows[i].id).ok

\* C2: a mutating request reads, changes and rewrites the file inside one
\* critical section: while a thread is between its read_csv and its write_csv
\* no other thread is inside read_csv's or write_csv's file section.
C2_OneCriticalSection ==
    \A t, u \in Threads :
        (t # u /\ BetweenReadAndWrite(t)) => ~InFile(u)

\* C3: two upsert requests that address different ids, in any interleaving:
\* when both have returned, the store holds a record for each of the two ids.
C3_NoLostUpdate ==
    (AllIdle /\ nreq = 2 /\ Cardinality(acked) = 2) => acked \subseteq Ids(StoreRows)

\* C4: a List that started after an upsert returned id X, with no delete of X
\* and no import completed since, returns a record with id X.
C4_DurableAfterReturn ==
    \A t \in Threads :
        (pc[t] = "body" /\ req[t].op = "list") => must[t] \subseteq Ids(snap[t])

\* None and the empty string are written alike (`value or ''`)
NormRow(r) ==
    Vocab(OrEmpty(r.id), OrEmpty(r.set), OrEmpty(r.word), OrEmpty(r.definition))
RECURSIVE NormRows(_)
NormRows(rs) == IF rs = <<>> THEN <<>> ELSE <<NormRow(Head(rs))>> \o NormRows(Tail(rs))

\* the file is the header row followed by complete rows of four fields
WellFormedFile ==
    LET d == DictReader(file, TRUE)
    IN /\ ~d.err
       /\ d.fieldnames = <<K_id, K_set, K_word, K_definition>>
       /\ \A i \in 1..Len(d.rows) : Len(d.rows[i]) = 4

OnlyUpsertsAndLists == \A i \in 1..Len(hist) : hist[i].op \in {"upsert", "list"}

\* C1: from the empty store, after any sequence of upsert requests (ids given
\* or allocated), no two stored records share an id.
C1_UniqueIdsAfterUpserts ==
    (lock = 0 /\ OnlyUpsertsAndLists) => UniqueIds(StoreRows)

\* C6: whenever the lock is free the file is the header row followed by
\* complete rows, and read_csv returns the record sequence of the initial file
\* or of the last completed write_csv.
C6_FileIsLastWrite ==
    lock = 0 => (WellFormedFile /\ StoreRows = NormRows(lastw))

Last == hist[Len(hist)]
Answered(o) == pc[1] = "idle" /\ hist # <<>> /\ Last.op = o

\* C7: a delete of an id that no stored record has leaves the store as it
\* was: the record sequence after it equals the record sequence before it.
C7_DeleteAbsentChangesNothing ==
    (Answered("delete") /\ Last.req.id \notin Ids(Last.before)) =>
        StoreRows = Last.before

\* the record an upsert request asks for, under the id it returned
Wanted(r) ==
    Vocab(r.vid, Strip(OrEmpty(r.set)), Strip(OrEmpty(r.word)),
          Strip(OrEmpty(r.definition)))

\* C10: an upsert whose id matches a stored record replaces the first such
\* record in place, all fields from the request, and leaves number, order and
\* content of the others unchanged; one whose id matches none appends the new
\* record at the end and leaves the existing records unchanged.
C10_UpsertFrame ==
    Answered("upsert") =>
        LET b == Last.before
            i == FirstMatch(b, Last.req.vid)
            k == IF i = 0 THEN Len(b) + 1 ELSE i
        IN /\ Len(StoreRows) = (IF i = 0 THEN Len(b) + 1 ELSE Len(b))
           /\ StoreRows[k] = Wanted(Last.req)
           /\ \A j \in 1..Len(b) : j # k => StoreRows[j] = b[j]

BlankUpsert(e) == e.op = "upsert" /\ e.req.id = <<>>
\* hist is n blank-id upserts followed by the requests named in tail
Scenario(n, tail) ==
    /\ Len(hist) = n + Len(tail)
    /\ \A i \in 1..n : BlankUpsert(hist[i])
    /\ \A i \in 1..Len(tail) : hist[n + i].op = tail[i]
RECURSIVE Created(_)
Created(n) ==
    IF n = 0 THEN <<>>
    ELSE Append(Created(n - 1), Wanted([hist[n].req EXCEPT !.vid = IntStr(n)]))

\* C8: from the empty store, consecutive blank-id upserts return "1", "2", ...
\* in order; a List then returns the created records in creation order; after
\* Delete("1") a List returns the remaining records, still in creation order.
C8_Scenario ==
    \A n \in 1..MaxSeqReqs :
        /\ Scenario(n, <<>>) => hist[n].req.vid = IntStr(n)
        /\ Scenario(n, <<"list">>) => Last.before = Created(n)
        /\ (Scenario(n, <<"delete", "list">>) /\ hist[n + 1].req.id = <<"1">>) =>
              Last.before = Tail(Created(n))

\* C11: no upsert whose body is a JSON object is refused, whatever fields it
\* lacks; after it the store holds the requested record with every text field
\* stripped, under the id the upsert returned; that id is the stripped id of
\* the request, or a newly allocated one when the request's id is missing,
\* empty or blank.
C11_UpsertStoresTrimmed ==
    /\ \A i \in 1..Len(hist) :
          (hist[i].req.op = "upsert" /\ Body(hist[i].req) = "object") =>
              hist[i].op = "upsert"
    /\ Answered("upsert") =>
          /\ \E i \in 1..Len(StoreRows) : StoreRows[i] = Wanted(Last.req)
          /\ Last.req.vid = IF Strip(OrEmpty(Last.req.id)) = <<>>
                            THEN next_numeric_id(Last.before)
                            ELSE Strip(Last.req.id)

\* C12: after Delete(id) the store is the store before it without the records
\* whose id equals id, the others in their previous order; so a List that
\* follows contains no record with that id.
C12_DeleteRemovesAll ==
    Answered("delete") =>
        /\ StoreRows = NormRows(SelectSeq(Last.before, LAMBDA r : r.id # Last.req.id))
        /\ Last.req.id \notin Ids(StoreRows)

\* C13: once a delete of an id, or an import without it, has returned, a
\* record with that id is stored again only by an upsert or import that itself
\* carries the id: whenever the lock is free no removed id is in the store.
C13_NoResurrection ==
    lock = 0 => Ids(StoreRows) \cap gone = {}

\* two upserts without an id are in flight, both past their allocation
BothAllocated(t, u) ==
    /\ t # u
    /\ req[t].op = "upsert" /\ req[t].id = <<>> /\ req[t].vid # <<>>
    /\ req[u].op = "upsert" /\ req[u].id = <<>> /\ req[u].vid # <<>>

\* C14: two concurrent upserts that both omit the id are answered with two
\* different ids.
C14_ConcurrentAllocationsDiffer ==
    \A t, u \in Threads : BothAllocated(t, u) => req[t].vid # req[u].vid

\* a sampling request as the client sent it: its filter and its count
Filtered(e) == e.req.args.mode # T_all /\ e.req.args.set \notin {Absent, T_All}
ClaimedPool(e) ==
    IF Filtered(e)
    THEN SelectSeq(e.before, LAMBDA r : r.set = e.req.args.set)
    ELSE e.before
SentCount(e) == IF e.req.args.count = Absent THEN 25 ELSE ParseInt(e.req.args.count).val
ClampedCount(e) ==
    IF SentCount(e) < 1 THEN 1 ELSE IF SentCount(e) > 50 THEN 50 ELSE SentCount(e)
\* items are distinct entries of pool
DistinctOf(items, pool) ==
    \E g \in [1..Len(items) -> 1..Len(pool)] :
        /\ \A i, j \in 1..Len(items) : g[i] = g[j] => i = j
        /\ \A i \in 1..Len(items) : items[i] = pool[g[i]]

\* C15 as claimed: a sampling request returns exactly min(count, poolSize)
\* items, count being the count parameter of the request, all of them distinct
\* records of the pool.
C15_Original ==
    Answered("test") =>
        /\ Len(Last.rows) = Min2(SentCount(Last), Len(ClaimedPool(Last)))
        /\ DistinctOf(Last.rows, ClaimedPool(Last))

\* C15 amended: a sampling request returns exactly min(c, poolSize) items,
\* c being the count parameter clamped to [1, 50], all of them distinct
\* records of the pool; the pool is every stored record when mode is "all" or
\* the set name is "All" (or absent), else the stored records of that set.
C15_SampleSizeClamped ==
    Answered("test") =>
        /\ Len(Last.rows) = Min2(ClampedCount(Last), Len(ClaimedPool(Last)))
        /\ DistinctOf(Last.rows, ClaimedPool(Last))

\* C15 witness: a sampling request for one set was answered from a store that
\* also holds a record of another set, with a pool smaller than the count.
C15_Witness ==
    /\ Answered("test")
    /\ Filtered(Last)
    /\ Len(ClaimedPool(Last)) > 0
    /\ Len(ClaimedPool(Last)) < Len(Last.before)
    /\ Len(ClaimedPool(Last)) < ClampedCount(Last)
    /\ Len(Last.rows) = Len(ClaimedPool(Last))

\* C16: the number of items a sampling request asks of the pool is the count
\* parameter clamped to [1, 50], 25 when the parameter is absent; the set name
\* is "All" when the set parameter is absent.
C16_CountClamped ==
    Answered("test") =>
        /\ Last.req.count \in 1..50
        /\ Last.req.count = ClampedCount(Last)
        /\ Last.req.args.count = Absent => Last.req.count = 25
        /\ Last.req.args.set = Absent => Last.req.set_name = T_All

\* C16 witness: three sampling requests were answered, one with a count below
\* 1, one with a count above 50, one without a count.
C16_Witness ==
    /\ Answered("test")
    /\ \E i, j, k \in 1..Len(hist) :
          /\ hist[i].op = "test" /\ SentCount(hist[i]) < 1
          /\ hist[j].op = "test" /\ SentCount(hist[j]) > 50
          /\ hist[k].op = "test" /\ hist[k].req.args.count = Absent

\* a step of a thread that serves a sampling request
SamplingStep ==
    \E t \in Threads :
        pc'[t] # pc[t] /\ (req[t].op = "test" \/ req'[t].op = "test")

\* C17: no step of a sampling request writes the file, so the stored records
\* and their order are the same after it as before.
C17_SamplingNeverWrites ==
    [][SamplingStep => file' = file]_vars

\* C17 witness: a sampling request returned two stored records in the
\* opposite of their stored order, and the store still has its order.
C17_Witness ==
    /\ Answered("test")
    /\ Len(Last.before) = 2
    /\ Last.before[1] # Last.before[2]
    /\ Last.rows = <<Last.before[2], Last.before[1]>>
    /\ StoreRows = Last.before

\* C18: after an import the store holds exactly the records the import built
\* from its text, in text order, none of the records stored before; the count
\* it returns is the number of records then stored.
C18_ImportReplacesAll ==
    Answered("import") =>
        /\ StoreRows = NormRows(Last.rows)
        /\ Len(Last.rows) = Len(StoreRows)

\* the rows of an import's text whose id is blank
BlankRows(e) ==
    LET d == DictReader(e.req.text, FALSE)
    IN {n \in 1..Len(d.rows) :
           Strip(OrEmpty(DictGet(d.fieldnames, d.rows[n], K_id, NoneV))) = <<>>}
\* the integer ids of the rows that precede row n in the batch
IdsBefore(e, n) == ParsedIds(SubSeq(e.rows, 1, n - 1))

\* C19 as claimed: a blank-id row of an import receives 1 + the greatest
\* integer id among the rows before it in the batch ("1" when there is none).
C19_Original ==
    Answered("import") =>
        \A n \in BlankRows(Last) :
            Last.rows[n].id = IF IdsBefore(Last, n) = {} THEN <<"1">>
                              ELSE IntStr(SetMax(IdsBefore(Last, n)) + 1)

\* C19 amended: a blank-id row of an import receives 1 + the greatest of 0
\* and the integer ids of the rows before it in the batch, explicit or
\* allocated; two blank-id rows of a batch receive different ids; the ids
\* stored before the import play no role.
C19_BatchAllocation ==
    Answered("import") =>
        /\ \A n \in BlankRows(Last) :
              Last.rows[n].id = IntStr(SetMax(IdsBefore(Last, n) \cup {0}) + 1)
        /\ \A n, m \in BlankRows(Last) : Last.rows[n].id = Last.rows[m].id => n = m

\* C19 witness: with a record of id "7" in the store, an import was answered
\* whose batch has two blank-id rows after a row with a negative id.
C19_Witness ==
    /\ Answered("import")
    /\ Len(hist) = 2 /\ hist[1].op = "upsert" /\ hist[1].req.vid = <<"7">>
    /\ \E n, m \in BlankRows(Last) :
          n < m /\ \E v \in IdsBefore(Last, n) : v < 0

\* C20: ids are unique among the stored records in every reachable state,
\* after any sequence of upsert, delete and import requests.
C20_UniqueIdsAlways ==
    lock = 0 => UniqueIds(StoreRows)

\* an import text is malformed when its first line is not the header
\* id,set,word,definition (an empty text has none) or it leaves a quote open
QuoteCount(text) == Cardinality({i \in 1..Len(text) : text[i] = QUOTE})
Malformed(text) ==
    \/ DictReader(text, FALSE).fieldnames # <<K_id, K_set, K_word, K_definition>>
    \/ QuoteCount(text) % 2 = 1
InWrite(t) == pc[t] \in {"write_lock", "write_open", "write_header", "write_rows"}

\* C21: an import of malformed text is rejected and changes nothing: no import
\* of malformed text reaches write_csv, and none is answered with success.
C21_MalformedImportRejected ==
    /\ \A t \in Threads : req[t].op = "import" => ~Malformed(req[t].text)
    /\ \A i \in 1..Len(hist) :
          hist[i].op = "import" => ~Malformed(hist[i].req.text)

\* an upsert body that is no JSON object, or an object with a field that is
\* no string
MalformedBody(r) ==
    Body(r) # "object" \/ NonStr \in {r.id, r.set, r.word, r.definition}

\* C22: an upsert with a malformed body is answered with a 4xx status, and no
\* upsert that is malformed or ends in an error reaches write_csv.
C22_MalformedUpsertRejected ==
    /\ \A i \in 1..Len(hist) :
          (hist[i].req.op = "upsert" /\ MalformedBody(hist[i].req)) =>
              hist[i].status \in 400..499
    /\ \A t \in Threads :
          (req[t].op = "upsert" /\ MalformedBody(req[t])) => ~InWrite(t)

\* an export was answered right after an import of well-formed text
ExportAfterImport ==
    /\ Answered("export")
    /\ Len(hist) >= 2
    /\ hist[Len(hist) - 1].op = "import"
    /\ ~Malformed(hist[Len(hist) - 1].req.text)
\* the records a csv decoder reads from an exported text
Decoded(text) ==
    LET d == DictReader(text, FALSE) IN ReadRowsOf(d.fieldnames, d.rows, Len(d.rows))

\* C23: after an import of well-formed text the export starts with the header
\* id,set,word,definition and has one row per imported row that decodes to
\* the same id, set, word and definition.
C23_ImportThenExport ==
    ExportAfterImport =>
        /\ SubSeq(Last.req.text, 1, Len(HeaderLine)) = HeaderLine
        /\ ~DictReader(Last.req.text, FALSE).err
        /\ Decoded(Last.req.text) = NormRows(hist[Len(hist) - 1].rows)

\* C30: after any sequence of upsert, delete and import requests every stored
\* record has a non-empty id without leading or trailing whitespace.
C30_IdsNonEmptyStripped ==
    lock = 0 =>
        \A i \in 1..Len(StoreRows) :
            /\ StoreRows[i].id \notin {<<>>, NoneV, Absent}
            /\ Strip(StoreRows[i].id) = StoreRows[i].id

\* the request POST /api/vocabs sends to create a record: no id
BlankIdUpsert == Req("upsert", <<>>, <<"s">>, <<"w">>, <<"d">>, <<>>)

\* C29: the id next_numeric_id returns is the decimal string of an integer
\* >= 1 that is greater than every id of the rows that parses as an integer,
\* so it is the id of none of the rows, and an upsert without an id appends
\* its record and leaves every record of the snapshot as it was.
C29_FreshIdNeverOverwrites ==
    nid_out # NoneV =>
        /\ AllDigits(nid_out) /\ nid_out = NatStr(DigitsVal(nid_out, 0))
        /\ DigitsVal(nid_out, 0) >= 1
        /\ \A v \in ParsedIds(nid_rows) : DigitsVal(nid_out, 0) > v
        /\ nid_out \notin Ids(nid_rows)
        /\ UpsertVid(nid_rows, BlankIdUpsert) = nid_out
        /\ FirstMatch(nid_rows, nid_out) = 0
        /\ UpsertRows(nid_rows, BlankIdUpsert) =
               Append(nid_rows, Vocab(nid_out, <<"s">>, <<"w">>, <<"d">>))

\* C29 witness: next_numeric_id has answered "4" for three rows whose greatest
\* id is " 3", written with a leading space, next to an id that is no integer.
C29_Witness ==
    /\ nid_out = <<"4">>
    /\ Len(nid_rows) = MaxNidRows
    /\ \E i \in 1..Len(nid_rows) : nid_rows[i].id = <<SPACE, "3">>
    /\ \E i \in 1..Len(nid_rows) : ~ParseInt(nid_rows[i].id).ok

\* C24: read_csv applied to the file write_csv wrote for a record sequence
\* returns that sequence unchanged: same records, same order, same fields.
C24_CodecRoundTrip ==
    Answered("list") => Last.before = lastw

\* the encoding as claimed: every double quote of the field twice, inside
\* double quotes when the field is the definition or holds a comma, a double
\* quote or a line feed; fields in the order id, set, word, definition, each
\* record on a line of its own after the header line
RECURSIVE Doubled(_)
Doubled(x) ==
    IF x = <<>> THEN <<>>
    ELSE LET c == x[Len(x)]
         IN Doubled(SubSeq(x, 1, Len(x) - 1)) \o
            (IF c = QUOTE THEN <<c, c>> ELSE <<c>>)
ClaimedField(v, always) ==
    LET x == OrEmpty(v)
        wrap == always \/ \E i \in 1..Len(x) : x[i] \in {COMMA, QUOTE, LF}
    IN IF wrap THEN <<QUOTE>> \o Doubled(x) \o <<QUOTE>> ELSE Doubled(x)
ClaimedLine(r) ==
    ClaimedField(r.id, FALSE) \o <<COMMA>> \o ClaimedField(r.set, FALSE)
    \o <<COMMA>> \o ClaimedField(r.word, FALSE) \o <<COMMA>>
    \o ClaimedField(r.definition, TRUE) \o <<LF>>
RECURSIVE ClaimedLines(_)
ClaimedLines(rs) ==
    IF rs = <<>> THEN <<>> ELSE ClaimedLine(Head(rs)) \o ClaimedLines(Tail(rs))
ClaimedText(rs) == HeaderLine \o ClaimedLines(rs)

\* C25: the file write_csv leaves is the header line followed by one line per
\* record in the claimed encoding, and the export endpoint emits exactly the
\* text write_csv writes for the records it read.
C25_EncodingOfRecords ==
    /\ hist # <<>> => file = ClaimedText(lastw)
    /\ Answered("export") =>
          /\ Last.req.text = ClaimedText(Last.before)
          /\ Last.req.text = Encode(Last.before)

\* C25 witness: an export was answered after write_csv wrote a record whose
\* id holds a double quote, whose set is a comma, whose word is a line feed
\* and whose definition holds a double quote and a comma, before a record
\* whose id and word need no quotes.
C25_Witness ==
    /\ Answered("export")
    /\ Len(lastw) = MaxCodecRows
    /\ lastw[1] = Vocab(<<QUOTE, "i">>, <<COMMA>>, <<LF>>, <<QUOTE, COMMA>>)
    /\ lastw[2].id = <<"1">> /\ lastw[2].word = <<>>
    /\ Last.before = lastw

\* C26: no request hangs and the lock is never left held or taken twice: the
\* holder of the lock is always a thread inside read_csv or write_csv, a
\* thread that waits for the lock does not hold it, the lock is free whenever
\* no request is being served, and under fair scheduling every request that
\* has started is eventually answered, also after another request failed
\* inside read_csv or write_csv.
C26_EveryRequestReturns ==
    /\ [](\A t \in Threads : (lock = t => InFile(t)) /\ (Waiting(t) => lock # t))
    /\ [](AllIdle => lock = 0)
    /\ \A t \in Threads : (pc[t] # "idle") ~> (pc[t] = "idle")

\* C26 witness: a thread waits to enter write_csv while the other thread,
\* serving an import, holds the lock before any row is written.
C26_Witness ==
    \E t, u \in Threads :
        /\ pc[t] = "write_lock" /\ req[t].op = "upsert"
        /\ pc[u] = "write_header" /\ req[u].op = "import" /\ lock = u

\* a sentence-generation request is answered in this step
SentencesStep ==
    Len(hist') = Len(hist) + 1 /\ hist'[Len(hist')].op = "sentences"

\* C27: a sentence-generation request leaves the file and the lock as they
\* were and sends no thread into read_csv or write_csv, and it is answered
\* 502 exactly when it got no sentences or a number of sentences other than
\* the number of items, and 200 otherwise.
C27_SentencesNeverTouchStore ==
    [][SentencesStep =>
          /\ file' = file /\ lock' = lock /\ pc' = pc /\ lastw' = lastw
          /\ LET e == hist'[Len(hist')]
                 failed == e.req.sentences = 0 \/ e.req.sentences # e.req.items
             IN e.status = IF failed THEN 502 ELSE 200]_vars

\* C27 witness: over a store that holds a record, one sentence request was
\* answered with sentences and another, whose call of the external model
\* raised, was answered 502.
C27_Witness ==
    /\ StoreRows # <<>>
    /\ \E i, j \in 1..Len(hist) :
          /\ hist[i].op = "sentences" /\ hist[i].status = 200
          /\ hist[j].op = "sentences" /\ hist[j].status = 502
          /\ hist[j].req.ext < 0

\* the ordered selections of k distinct records of a pool
Selections(pool, k) ==
    {[i \in 1..k |-> pool[g[i]]] :
        g \in {h \in [1..k -> 1..Len(pool)] :
                  \A i, j \in 1..k : h[i] = h[j] => i = j}}
\* the draws of random.shuffle that put the pool in the order f
DrawsFor(pool, f) ==
    {js \in Choices(Len(pool)) : random_shuffle(pool, js) = Shuffled(pool, f)}

\* C28: the shuffle of a sampling request can produce every permutation of
\* the pool, each by exactly one of its equally likely sequences of draws,
\* so all permutations are equally likely; the answers it can give are all
\* ordered selections of min(count, pool size) distinct pool records.
C28_UniformShuffle ==
    req[1].op = "test" =>
        LET pool == TestPool(snap[1], req[1].mode, req[1].set_name)
            k == Min2(req[1].count, Len(pool))
        IN /\ \A f \in Perms(Len(pool)) : Cardinality(DrawsFor(pool, f)) = 1
           /\ {Slice(random_shuffle(pool, js), req[1].count) :
                   js \in Choices(Len(pool))} = Selections(pool, k)
           /\ pc[1] = "respond" => rows[1] \in Selections(pool, k)

\* C28 witness: a request for 2 of a pool of 4 records is about to answer
\* the pool's last record followed by its first.
C28_Witness ==
    /\ pc[1] = "respond" /\ req[1].op = "test"
    /\ Len(snap[1]) = MaxPool
    /\ rows[1] = <<snap[1][MaxPool], snap[1][1]>>

\* two answered imports of one run carried the same text
SameImport(i, j) ==
    /\ hist[i].op = "import" /\ hist[j].op = "import"
    /\ hist[i].req.text = hist[j].req.text

\* C32: what an import stores and the count it returns depend on its text
\* alone: two imports of the same text, whatever the store held before each,
\* build the same records, no import takes a snapshot of the store, and the
\* file an import leaves is the encoding of the records it built.
C32_ImportIgnoresStore ==
    /\ \A i, j \in 1..Len(hist) : SameImport(i, j) => hist[i].rows = hist[j].rows
    /\ \A i \in 1..Len(hist) : hist[i].op = "import" => hist[i].before = <<>>
    /\ Answered("import") => file = Encode(Last.rows)

\* C32 witness: the same text was imported twice, the second time over a
\* store that another write had changed in between.
C32_Witness ==
    /\ Answered("import")
    /\ \E i, k \in 1..Len(hist) :
          /\ i < k /\ k < Len(hist)
          /\ SameImport(i, Len(hist))
          /\ hist[i].rows # <<>>
          /\ hist[k].op \in {"upsert", "import"}
          /\ hist[k].rows # hist[i].rows

\* an upsert without an id was answered right after a delete of the greatest
\* numeric id that the store then held
DeletedGreatest(e) ==
    /\ e.op = "delete"
    /\ e.req.id \in Ids(e.before)
    /\ ParseInt(e.req.id).ok
    /\ \A v \in ParsedIds(e.before) : v <= ParseInt(e.req.id).val
CreateAfterDelete ==
    /\ Answered("upsert") /\ BlankUpsert(Last)
    /\ Len(hist) >= 2
    /\ DeletedGreatest(hist[Len(hist) - 1])
\* the records a delete leaves of the records it read
LeftBy(e) == SelectSeq(e.before, LAMBDA r : r.id # e.req.id)
\* one more than the greatest of 0 and the numeric ids of the records rs
OneAboveGreatest(rs) == IntStr(SetMax(ParsedIds(rs) \cup {0}) + 1)

\* C31 as claimed: after the record with the greatest numeric id is deleted,
\* the next upsert with an empty id returns that same id again.
C31_Original ==
    CreateAfterDelete => Last.req.vid = hist[Len(hist) - 1].req.id

\* C31 amended: the id an upsert allocates is one more than the greatest of 0
\* and the numeric ids of the records it read, whatever was allocated before;
\* after the record with the greatest numeric id is deleted, the next upsert
\* with an empty id returns one more than the greatest numeric id that is
\* left (at least 1), which is the deleted id exactly when the deleted id was
\* one more than that.
C31_AllocationFromStoredOnly ==
    /\ (Answered("upsert") /\ BlankUpsert(Last)) =>
          Last.req.vid = OneAboveGreatest(Last.before)
    /\ CreateAfterDelete =>
          LET d == hist[Len(hist) - 1]
          IN /\ Last.req.vid = OneAboveGreatest(LeftBy(d))
             /\ (Last.req.vid = d.req.id) <=>
                   (d.req.id = OneAboveGreatest(LeftBy(d)))

\* C31 witness: the record with the greatest id, "4", was deleted from a store
\* that keeps another record, and the next upsert without an id was answered
\* "4" again.
C31_Witness ==
    /\ CreateAfterDelete
    /\ hist[Len(hist) - 1].req.id = <<"4">>
    /\ Last.req.vid = <<"4">>
    /\ LeftBy(hist[Len(hist) - 1]) # <<>>

=============================================================================
